---- MODULE Spec2Model ----
(***************************************************************************)
(* A model of SANSCOG/data.py: DICOMCrawler.crawl and its helpers.         *)
(*                                                                         *)
(* Strings are sequences of one-character strings, so that Python's        *)
(* substring test (tag in x), string ordering (sorted) and the path        *)
(* arithmetic of glob / os.path.join are computed, not assumed.            *)
(* Python's None is the empty tuple and a present value v is <<v>>.        *)
(***************************************************************************)
EXTENDS Integers, Sequences, FiniteSets, TLC

VARIABLES
    fs,            \* the file system: path -> entry
    disk,          \* content of the files written by to_csv: path -> rows
    paths,         \* self.paths
    json_file,     \* what open(self.json_path) / json.load meet
    tieRule,       \* how the build's unstable sort orders equal keys
    pc,            \* position of crawl(): start, crawling, done, failed
    data,          \* local `data` of crawl()
    i,             \* index in self.paths of the path the loop is at
    error,         \* the exception that left crawl(), if any
    subject_data,  \* local `subject_data` of the last path processed
    log,           \* per appended row: what _check_all_dcm returned, whether _read_dcm ran
    stdout,        \* the paths named by the "Saved modal_data.csv" lines of this run
    run,           \* number of the current crawl() call
    prev_disk      \* disk as the previous crawl() call left it

vars == <<fs, disk, paths, json_file, tieRule, pc, data, i, error,
          subject_data, log, stdout, run, prev_disk>>

----------------------------------------------------------------------------
(* Bounds *)

MaxTime == 2      \* acquisition times are drawn from 1..MaxTime
MaxRuns == 2      \* crawl() is called at most MaxRuns times

----------------------------------------------------------------------------
(* Python strings *)

\* a list comprehension, as the list it builds
List(f) == f \o <<>>

None == <<>>
Some(v) == <<v>>

\* code points of the characters that occur in the modelled paths
Ord == ("." :> 46) @@ ("/" :> 47) @@ ("M" :> 77) @@ ("R" :> 82) @@ ("_" :> 95)
       @@ ("a" :> 97) @@ ("b" :> 98) @@ ("c" :> 99) @@ ("d" :> 100)
       @@ ("l" :> 108) @@ ("m" :> 109) @@ ("o" :> 111) @@ ("r" :> 114)
       @@ ("s" :> 115) @@ ("t" :> 116) @@ ("v" :> 118)

\* the first index at which s and t differ, 0 when one is a prefix of the other
RECURSIVE FirstDiff(_, _, _)
FirstDiff(s, t, k) ==
    IF k > Len(s) \/ k > Len(t) THEN 0
    ELSE IF s[k] # t[k] THEN k
    ELSE FirstDiff(s, t, k + 1)

\* s < t for Python strings
StrLess(s, t) ==
    LET k == FirstDiff(s, t, 1)
    IN  IF k = 0 THEN Len(s) < Len(t) ELSE Ord[s[k]] < Ord[t[k]]

\* tag in x
Contains(tag, x) ==
    \E k \in 0..(Len(x) - Len(tag)) : SubSeq(x, k + 1, k + Len(tag)) = tag

\* sorted(S) of a collection of distinct strings
RECURSIVE sorted(_)
sorted(S) ==
    IF S = {} THEN <<>>
    ELSE LET x == CHOOSE x \in S : TRUE
             rest == sorted(S \ {x})
             n == Cardinality({j \in 1..Len(rest) : StrLess(rest[j], x)})
         IN  SubSeq(rest, 1, n) \o <<x>> \o SubSeq(rest, n + 1, Len(rest))

\* p.rstrip('/')
RECURSIVE rstrip(_)
rstrip(p) ==
    IF p # <<>> /\ p[Len(p)] = "/" THEN rstrip(SubSeq(p, 1, Len(p) - 1)) ELSE p

\* os.path.join(p, name)
join(p, name) ==
    IF p # <<>> /\ p[Len(p)] = "/" THEN p \o name ELSE p \o <<"/">> \o name

----------------------------------------------------------------------------
(* The file system *)

CSV_NAME == <<"m","o","d","a","l","_","d","a","t","a",".","c","s","v">>

R_DIR   == <<"d">>
A_DIR   == <<"d","/","m","r">>
A_a     == <<"d","/","m","r","/","a">>
A_b     == <<"d","/","m","r","/","b">>
A_hid   == <<"d","/","m","r","/",".","a">>
B_DIR   == <<"d","/","M","R">>
B_a     == <<"d","/","M","R","/","a">>
H_DIR   == <<"d","/",".","m","r">>
R_csv   == join(R_DIR, CSV_NAME)
A_csv   == join(A_DIR, CSV_NAME)

Nodes == {R_DIR, A_DIR, A_a, A_b, A_hid, B_DIR, B_a, H_DIR, R_csv, A_csv}
CsvNodes == {R_csv, A_csv}

DICOM_MIME == "application/dicom"

NoDs == [ok |-> FALSE, elems |-> <<>>]
Absent == [kind |-> "absent", mime |-> "", ds |-> NoDs]
Dir == [kind |-> "dir", mime |-> "inode/directory", ds |-> NoDs]
Other == [kind |-> "file", mime |-> "text/plain", ds |-> NoDs]
CsvFile == [kind |-> "file", mime |-> "text/csv", ds |-> NoDs]
Dicom(ds) == [kind |-> "file", mime |-> DICOM_MIME, ds |-> ds]

FieldNames == <<"Study Date", "Acquisition Time", "Patient ID", "Patient's Sex", "Patient's Age">>

\* a data set holding all five elements (and one more), acquired at time t
Full(t) == [ok |-> TRUE,
            elems |-> << <<"Modality", 7>>, <<"Study Date", 3>>, <<"Acquisition Time", t>>,
                         <<"Patient ID", 4>>, <<"Patient's Sex", 5>>, <<"Patient's Age", 6>> >>]
\* the same without the element named f
Without(f) == [ok |-> TRUE,
               elems |-> SelectSeq(Full(1).elems, LAMBDA r : r[1] # f)]
\* a file typed as DICOM that dcmread cannot decode
Undecodable == [ok |-> FALSE, elems |-> <<>>]

----------------------------------------------------------------------------
(* glob, os.path.isdir, magic.from_file *)

IsChild(d, q) ==
    /\ Len(q) > Len(d) + 1
    /\ SubSeq(q, 1, Len(d) + 1) = d \o <<"/">>
    /\ \A k \in (Len(d) + 2)..Len(q) : q[k] # "/"

basename(d, q) == SubSeq(q, Len(d) + 2, Len(q))

listdir(d) == {q \in Nodes : fs[q].kind # "absent" /\ IsChild(d, q)}

\* glob never matches a name that starts with a dot unless the pattern does
ishidden(name) == name[1] = "."

visible(d) == {q \in listdir(d) : ~ishidden(basename(d, q))}

RECURSIVE rlistdir(_)
rlistdir(d) ==
    LET kids == visible(d)
    IN  kids \cup UNION {rlistdir(q) : q \in {k \in kids : fs[k].kind = "dir"}}

\* glob.glob(f"{x}/**", recursive=recursive): without recursive=True the
\* pattern ** is *, the direct entries; with it, the directory itself (spelt
\* with a trailing slash) and everything below it
glob(x, recursive) ==
    LET d == rstrip(x)
    IN  IF d \notin Nodes \/ fs[d].kind # "dir" THEN {}
        ELSE IF recursive THEN {d \o <<"/">>} \cup rlistdir(d)
        ELSE visible(d)

isdir(x) == rstrip(x) \in Nodes /\ fs[rstrip(x)].kind = "dir"

from_file(q) == fs[q].mime

----------------------------------------------------------------------------
(* Exceptions *)

NoError == [type |-> "", line |-> 0, mentions |-> {}]
Raise(type, line, mentions) == [type |-> type, line |-> line, mentions |-> mentions]

----------------------------------------------------------------------------
(* _read_json *)

NoData == [shape |-> "none", items |-> <<>>]

\* a loader that lets a source it could not parse or read through
read_json_lenient ==
    IF json_file.status = "missing"
        THEN [err |-> Raise("ValueError", 47, {"File not found", "json_path"}), value |-> NoData]
    ELSE [err |-> NoError, value |-> [shape |-> "object", items |-> <<>>]]

read_json ==
    IF json_file.status = "missing"
        THEN [err |-> Raise("ValueError", 47, {"File not found", "json_path"}), value |-> NoData]
    ELSE IF json_file.status = "invalid"
        THEN [err |-> Raise("ValueError", 49, {"Invalid JSON in file", "json_path"}), value |-> NoData]
    ELSE IF json_file.status = "unreadable"
        THEN [err |-> Raise("ValueError", 51, {"An unexpected error occurred", "cause"}), value |-> NoData]
    ELSE [err |-> NoError, value |-> json_file.doc]

----------------------------------------------------------------------------
(* _check_all_dcm *)

check_all_dcm(path) ==
    LET dcm_files == sorted(glob(path, FALSE))
    IN  IF Len(dcm_files) = 0 THEN FALSE
        ELSE \A k \in 1..Len(dcm_files) : from_file(dcm_files[k]) = DICOM_MIME

----------------------------------------------------------------------------
(* _read_dcm *)

read_dcm(path) ==
    LET first == sorted(glob(path, FALSE))[1]
        ds == fs[first].ds
    IN  IF ~ds.ok THEN [err |-> Raise("InvalidDicomError", 85, {}), df |-> <<>>]
        ELSE [err |-> NoError, df |-> ds.elems]

----------------------------------------------------------------------------
(* crawl: one candidate directory, lines 114-127 *)

\* dcm_data[dcm_data['name'] == name].values
Lookup(df, name) == SelectSeq(df, LAMBDA r : r[1] = name)

Min(S) == CHOOSE m \in S : \A x \in S : m <= x

NullRow(key, file) ==
    <<key, file, Cardinality(glob(file, FALSE)), None, None, None, None, None>>

\* a crawl that fills in Study Date for a directory that failed validation
Outcome_partial(key, file) ==
    IF check_all_dcm(file)
    THEN [err |-> NoError,
          row |-> <<key, file, Cardinality(glob(file, FALSE)),
                    Some(3), Some(1), Some(4), Some(5), Some(6)>>,
          valid |-> TRUE, read |-> TRUE]
    ELSE [err |-> NoError,
          row |-> <<key, file, Cardinality(glob(file, FALSE)), Some(3), None, None, None, None>>,
          valid |-> FALSE, read |-> TRUE]

\* a crawl that turns a failed extraction into a null row
Outcome_swallow(key, file) ==
    IF check_all_dcm(file) /\ read_dcm(file).err = NoError
       /\ \A k \in 1..5 : Lookup(read_dcm(file).df, FieldNames[k]) # <<>>
    THEN [err |-> NoError,
          row |-> <<key, file, Cardinality(glob(file, FALSE)),
                    Some(Lookup(read_dcm(file).df, FieldNames[1])[1][2]),
                    Some(Lookup(read_dcm(file).df, FieldNames[2])[1][2]),
                    Some(Lookup(read_dcm(file).df, FieldNames[3])[1][2]),
                    Some(Lookup(read_dcm(file).df, FieldNames[4])[1][2]),
                    Some(Lookup(read_dcm(file).df, FieldNames[5])[1][2])>>,
          valid |-> TRUE, read |-> TRUE]
    ELSE [err |-> NoError, row |-> NullRow(key, file),
          valid |-> check_all_dcm(file), read |-> check_all_dcm(file)]

Outcome(key, file) ==
    IF check_all_dcm(file) THEN
        LET r == read_dcm(file)
            absent == {k \in 1..5 : Lookup(r.df, FieldNames[k]) = <<>>}
        IN  IF r.err # NoError
                THEN [err |-> r.err, row |-> <<>>, valid |-> TRUE, read |-> TRUE]
            ELSE IF absent # {}
                \* .values[0] of an empty selection; the lookups run in line order
                THEN [err |-> Raise("IndexError", 115 + Min(absent), {"index 0 is out of bounds"}),
                      row |-> <<>>, valid |-> TRUE, read |-> TRUE]
            ELSE [err |-> NoError,
                  row |-> <<key, file, Cardinality(glob(file, FALSE)),
                            Some(Lookup(r.df, FieldNames[1])[1][2]),
                            Some(Lookup(r.df, FieldNames[2])[1][2]),
                            Some(Lookup(r.df, FieldNames[3])[1][2]),
                            Some(Lookup(r.df, FieldNames[4])[1][2]),
                            Some(Lookup(r.df, FieldNames[5])[1][2])>>,
                  valid |-> TRUE, read |-> TRUE]
    ELSE [err |-> NoError, row |-> NullRow(key, file), valid |-> FALSE, read |-> FALSE]

----------------------------------------------------------------------------
(* crawl: the candidates of one input path, lines 107-113 *)

\* `for tag in tags`: a list yields its elements, a str its characters
Tags(value) ==
    IF value.type = "array" THEN value.val
    ELSE List([k \in 1..Len(value.val) |-> <<value.val[k]>>])

all_files(path, tags) ==
    SelectSeq(sorted(glob(path, TRUE)),
              LAMBDA x : (\E k \in 1..Len(tags) : Contains(tags[k], x)) /\ isdir(x))

RECURSIVE Work(_, _)
Work(items, path) ==
    IF items = <<>> THEN <<>>
    ELSE LET files == all_files(path, Tags(Head(items).value))
         IN  List([k \in 1..Len(files) |-> [key |-> Head(items).key, file |-> files[k]]])
             \o Work(Tail(items), path)

----------------------------------------------------------------------------
(* DataFrame.sort_values(by='Acquisition Time', na_position='last'), to_csv *)

Columns == <<"Modality", "Path", "DCM_Count", "Study Date", "Acquisition Time",
             "Subject_ID", "Subject_Sex", "Subject_Age">>
ACQ == 5

\* The default kind is quicksort, which is not stable: rows with equal keys
\* come out in an order the build decides.  Null keys are split off before
\* the sort and appended in their original order.
Before(rows, k, l) ==
    \/ rows[k][ACQ][1] < rows[l][ACQ][1]
    \/ /\ rows[k][ACQ][1] = rows[l][ACQ][1]
       /\ IF tieRule = "first" THEN k < l ELSE k > l

RECURSIVE argsort(_, _)
argsort(rows, idx) ==
    IF idx = {} THEN <<>>
    ELSE LET m == CHOOSE m \in idx : \A x \in idx : x = m \/ Before(rows, m, x)
         IN  <<m>> \o argsort(rows, idx \ {m})

RECURSIVE ascending(_)
ascending(idx) ==
    IF idx = {} THEN <<>> ELSE <<Min(idx)>> \o ascending(idx \ {Min(idx)})

\* a table written in the order the rows were appended
sort_values_skipped(rows) == rows

sort_values(rows) ==
    LET non_nan == {k \in 1..Len(rows) : rows[k][ACQ] # None}
        nan_idx == {k \in 1..Len(rows) : rows[k][ACQ] = None}
        indexer == argsort(rows, non_nan) \o ascending(nan_idx)
    IN  List([k \in 1..Len(rows) |-> rows[indexer[k]]])

to_csv(table) == <<Columns>> \o table

----------------------------------------------------------------------------
(* Inputs *)

\* {"MRI": ["mr"]}
T_one == [shape |-> "object",
          items |-> << [key |-> "MRI", value |-> [type |-> "array", val |-> << <<"m","r">> >>]] >>]
\* {"MRI": ["mr"], "HEAD": ["MR", "d/"]}
T_two == [shape |-> "object",
          items |-> << [key |-> "MRI", value |-> [type |-> "array", val |-> << <<"m","r">> >>]],
                       [key |-> "HEAD",
                        value |-> [type |-> "array", val |-> << <<"M","R">>, <<"d","/">> >>]] >>]
\* ["mr"]
T_array == [shape |-> "array", items |-> <<>>]
\* {"MRI": "mr"}
T_string == [shape |-> "object",
             items |-> << [key |-> "MRI", value |-> [type |-> "string", val |-> <<"m","r">>]] >>]

JsonFiles ==
    {[status |-> "ok", doc |-> d] : d \in {T_one, T_two, T_array, T_string}}
    \cup {[status |-> st, doc |-> NoData] : st \in {"missing", "invalid", "unreadable"}}

PathLists == {<<>>, <<R_DIR, A_DIR>>, <<A_DIR, R_DIR>>}

DataSets == {Full(t) : t \in 1..MaxTime} \cup {Undecodable}
            \cup {Without(FieldNames[k]) : k \in 1..5}

FileSystems ==
    {[q \in Nodes |->
        CASE q = R_DIR -> Dir
          [] q = A_DIR -> Dir
          [] q = A_a   -> a
          [] q = A_b   -> b
          [] q = A_hid -> h
          [] q = B_DIR -> IF ba = Absent THEN bd ELSE Dir
          [] q = B_a   -> ba
          [] q = H_DIR -> hd
          [] OTHER     -> Absent] :
        a \in {Absent, Other} \cup {Dicom(ds) : ds \in DataSets},
        b \in {Absent, Other, Dir},
        h \in {Absent, Other},
        bd \in {Absent, Dir},
        ba \in {Absent, Dicom(Undecodable)} \cup {Dicom(Full(t)) : t \in 1..MaxTime},
        hd \in {Absent, Dir}}

NoFile == <<>>

Init ==
    /\ fs \in FileSystems
    /\ disk = [q \in CsvNodes |-> NoFile]
    /\ paths \in PathLists
    /\ json_file \in JsonFiles
    /\ tieRule \in {"first", "last"}
    /\ pc = "start"
    /\ data = NoData
    /\ i = 1
    /\ error = NoError
    /\ subject_data = <<>>
    /\ log = <<>>
    /\ stdout = <<>>
    /\ run = 1
    /\ prev_disk = [q \in CsvNodes |-> NoFile]

----------------------------------------------------------------------------
(* crawl *)

\* line 103
ReadJson ==
    /\ pc = "start"
    /\ LET r == read_json
       IN  IF r.err # NoError
           THEN /\ pc' = "failed"
                /\ error' = r.err
                /\ data' = data
           ELSE /\ pc' = "crawling"
                /\ error' = error
                /\ data' = r.value
    /\ UNCHANGED <<fs, disk, paths, json_file, tieRule, i, subject_data, log, stdout,
                   run, prev_disk>>

Entry(o, w) == [key |-> w.key, file |-> w.file, valid |-> o.valid, read |-> o.read]

\* lines 106-132: what one iteration of `for path in self.paths` raises or builds
Iteration(path) ==
    IF data.shape # "object"
    THEN \* data.items() of a list
         [err |-> Raise("AttributeError", 107, {"items"}),
          rows |-> <<>>, calls |-> <<>>, modal_data |-> <<>>]
    ELSE LET work == Work(data.items, path)
             out == List([k \in 1..Len(work) |-> Outcome(work[k].key, work[k].file)])
             bad == {k \in 1..Len(work) : out[k].err # NoError}
             last == IF bad = {} THEN Len(work) ELSE Min(bad)
             rows == List([k \in 1..(IF bad = {} THEN last ELSE last - 1) |-> out[k].row])
         IN  [err |-> IF bad = {} THEN NoError ELSE out[last].err,
              rows |-> rows,
              calls |-> List([k \in 1..last |-> Entry(out[k], work[k])]),
              modal_data |-> IF bad = {} THEN sort_values(rows) ELSE <<>>]

\* lines 105-137, one iteration of `for path in self.paths`
CrawlPath ==
    /\ pc = "crawling"
    /\ i <= Len(paths)
    /\ \E it \in {Iteration(paths[i])} :
          /\ subject_data' = it.rows
          /\ log' = it.calls
          /\ error' = it.err
          /\ IF it.err # NoError
             THEN /\ pc' = "failed"
                  /\ UNCHANGED <<fs, disk, i, stdout>>
             ELSE LET output_file == join(paths[i], CSV_NAME)
                  IN  /\ fs' = [fs EXCEPT ![output_file] = CsvFile]
                      /\ disk' = [disk EXCEPT ![output_file] = to_csv(it.modal_data)]
                      /\ stdout' = Append(stdout, paths[i])
                      /\ i' = i + 1
                      /\ pc' = pc
    /\ UNCHANGED <<paths, json_file, tieRule, data, run, prev_disk>>

\* the loop of line 105 is exhausted and crawl returns
Return ==
    /\ pc = "crawling"
    /\ i > Len(paths)
    /\ pc' = "done"
    /\ UNCHANGED <<fs, disk, paths, json_file, tieRule, data, i, error, subject_data,
                   log, stdout, run, prev_disk>>

\* the caller runs crawler.crawl() again on the same paths
CrawlAgain ==
    /\ pc = "done"
    /\ run < MaxRuns
    /\ run' = run + 1
    /\ prev_disk' = disk
    /\ pc' = "start"
    /\ data' = NoData
    /\ i' = 1
    /\ subject_data' = <<>>
    /\ log' = <<>>
    /\ stdout' = <<>>
    /\ UNCHANGED <<fs, disk, paths, json_file, tieRule, error>>

Next == ReadJson \/ CrawlPath \/ Return \/ CrawlAgain

Spec == Init /\ [][Next]_vars

----------------------------------------------------------------------------
(* Properties *)

Table(q) == Tail(disk[q])

\* an iteration of the current call has just written its table
Wrote == pc \in {"crawling", "done"} /\ stdout # <<>>
LastPath == stdout[Len(stdout)]
LastTable == Table(join(LastPath, CSV_NAME))

AllNull(row) == \A c \in 4..8 : row[c] = None
AllPresent(row) == \A c \in 4..8 : row[c] # None

NullsLastAscending(t) ==
    \A k, l \in 1..Len(t) :
        k < l =>
            /\ (t[k][ACQ] # None /\ t[l][ACQ] # None) => t[k][ACQ][1] <= t[l][ACQ][1]
            /\ t[k][ACQ] = None => t[l][ACQ] = None

\* C1: every table written is non-decreasing in Acquisition Time over the rows
\* that have one, and every row without one comes after every row with one.
C1_TableOrdered ==
    \A q \in CsvNodes : disk[q] # NoFile => NullsLastAscending(Table(q))

\* the rows were appended out of order, with and without a time, and were written
C1_Witness ==
    /\ Wrote
    /\ Len(LastTable) = Len(subject_data)
    /\ ~NullsLastAscending(subject_data)
    /\ \E k, l \in 1..Len(subject_data) :
          /\ subject_data[k][ACQ] = None
          /\ subject_data[l][ACQ] # None
    /\ \E k, l \in 1..Len(subject_data) :
          /\ k < l
          /\ subject_data[k][ACQ] # None /\ subject_data[l][ACQ] # None
          /\ subject_data[k][ACQ][1] > subject_data[l][ACQ][1]

\* the directories below p, hidden or not, and p itself as glob spells it
DirsUnder(p) ==
    {p \o <<"/">>}
    \cup {q \in Nodes : /\ fs[q].kind = "dir"
                        /\ Len(q) > Len(p) + 1
                        /\ SubSeq(q, 1, Len(p) + 1) = p \o <<"/">>}

WellFormed(doc) ==
    /\ doc.shape = "object"
    /\ \A k \in 1..Len(doc.items) : doc.items[k].value.type = "array"

Expected(doc, p) ==
    UNION {{<<doc.items[k].key, d>> :
               d \in {e \in DirsUnder(p) :
                         \E j \in 1..Len(doc.items[k].value.val) :
                            Contains(doc.items[k].value.val[j], e)}} :
           k \in 1..Len(doc.items)}

\* C2: the table written for a path holds exactly one row per (label, directory)
\* with the directory under the path and one of the label's patterns in its
\* full path, and no other row; rows of one directory agree on DCM_Count.
C2_OneRowPerMatch ==
    (Wrote /\ WellFormed(json_file.doc)) =>
        /\ {<<LastTable[k][1], LastTable[k][2]>> : k \in 1..Len(LastTable)}
              = Expected(json_file.doc, LastPath)
        /\ Len(LastTable) = Cardinality(Expected(json_file.doc, LastPath))
        /\ \A k, l \in 1..Len(LastTable) :
              LastTable[k][2] = LastTable[l][2] => LastTable[k][3] = LastTable[l][3]

\* the data set of the first entry of a directory, tables written since aside
Representative(file) == fs[sorted(glob(file, FALSE) \ CsvNodes)[1]].ds

\* C3: a directory the validator rejected is never read and its row has the
\* five fields null; a directory it accepted and that was extracted has all
\* five, with the values of its first file; no written row has some of the
\* five and not the others.
C3_ValidationDecidesShape ==
    /\ \A k \in 1..Len(log) :
          /\ ~log[k].valid =>
                /\ ~log[k].read
                /\ k <= Len(subject_data)
                /\ AllNull(subject_data[k])
          /\ (log[k].valid /\ k <= Len(subject_data)) =>
                /\ log[k].read
                /\ AllPresent(subject_data[k])
                /\ \A f \in 1..5 :
                      subject_data[k][3 + f]
                         = Some(Lookup(Representative(log[k].file).elems, FieldNames[f])[1][2])
          /\ k <= Len(subject_data) =>
                /\ subject_data[k][1] = log[k].key
                /\ subject_data[k][2] = log[k].file
    /\ \A q \in CsvNodes :
          disk[q] # NoFile =>
             \A k \in 1..Len(Table(q)) : AllNull(Table(q)[k]) \/ AllPresent(Table(q)[k])

\* one table holds a rejected directory's row and an extracted directory's row
C3_Witness ==
    /\ Wrote
    /\ Len(log) = Len(LastTable)
    /\ \E k, l \in 1..Len(log) :
          /\ ~log[k].valid /\ AllNull(subject_data[k])
          /\ log[l].valid /\ log[l].read /\ AllPresent(subject_data[l])

\* the entries the validator looks at would include the hidden ones
C4_Homogeneous(d) ==
    /\ listdir(d) # {}
    /\ \A q \in listdir(d) : from_file(q) = DICOM_MIME

\* C4: _check_all_dcm returned true for a directory exactly when the directory
\* has a direct entry and every direct entry is typed application/dicom.  (The
\* directories that received a table since they were validated are left out.)
C4_ValidatorIff ==
    \A k \in 1..Len(log) :
        rstrip(log[k].file) \notin {stdout[j] : j \in 1..Len(stdout)} =>
            (log[k].valid <=> C4_Homogeneous(rstrip(log[k].file)))

ExtractLines == {85} \cup 116..120

\* some candidate of the path passes validation and cannot be extracted
ExtractionFails(path) ==
    /\ data.shape = "object"
    /\ \E w \in {Work(data.items, path)} :
          \E k \in 1..Len(w) :
             /\ check_all_dcm(w[k].file)
             /\ \/ read_dcm(w[k].file).err # NoError
                \/ \E f \in 1..5 : Lookup(read_dcm(w[k].file).df, FieldNames[f]) = <<>>

\* C5: when extraction fails for a validated directory of the i-th path, the
\* crawl stops there with that failure and writes nothing: the file system and
\* the tables already written stay as they were, then and afterwards.
C5_FailureAborts ==
    [][/\ (pc = "crawling" /\ i <= Len(paths) /\ ExtractionFails(paths[i])) =>
             /\ pc' = "failed"
             /\ error'.line \in ExtractLines
             /\ fs' = fs /\ disk' = disk /\ stdout' = stdout
       /\ pc = "failed" => (pc' = "failed" /\ fs' = fs /\ disk' = disk)]_vars

\* extraction failed in the second path, after the first path's table was written
C5_Witness ==
    /\ pc = "failed"
    /\ error.line \in ExtractLines
    /\ i = 2
    /\ stdout = <<paths[1]>>
    /\ disk[join(paths[1], CSV_NAME)] # NoFile

\* C6: with a template source that is missing, not JSON or unreadable, crawl
\* fails with the loader's ValueError and has enumerated and written nothing.
C6_ConfigErrorFirst ==
    json_file.status # "ok" =>
        /\ pc \in {"start", "failed"}
        /\ pc = "failed" => (error.type = "ValueError" /\ error.line \in {47, 49, 51})
        /\ i = 1 /\ log = <<>> /\ stdout = <<>>
        /\ \A q \in CsvNodes : disk[q] = NoFile /\ fs[q] = Absent

C6_Witness ==
    /\ json_file.status \in {"invalid", "unreadable"}
    /\ pc = "failed"
    /\ Len(paths) = 2

\* C7: a second crawl of the same paths leaves every table as the first left it.
C7_Idempotent ==
    (run > 1 /\ pc = "done") => disk = prev_disk

Position(rows, r) == CHOOSE k \in 1..Len(rows) : rows[k] = r

\* C8: rows with equal Acquisition Time, and rows without one, are written in
\* the order in which they were appended.
C8_StableSort ==
    (Wrote /\ Len(LastTable) = Len(subject_data)) =>
        \A k, l \in 1..Len(LastTable) :
            (k < l /\ LastTable[k][ACQ] = LastTable[l][ACQ]) =>
                Position(subject_data, LastTable[k]) < Position(subject_data, LastTable[l])

\* C9: a template that is not a mapping from label to list of patterns never
\* leaves the loader: the crawl has failed with the loader's error.
C9_ShapeChecked ==
    (json_file.status = "ok" /\ ~WellFormed(json_file.doc) /\ pc # "start") =>
        /\ pc = "failed"
        /\ error.type = "ValueError"
        /\ error.line \in 47..51

\* the field names the representative file of the last directory tried lacks
Lacking ==
    IF log = <<>> \/ glob(log[Len(log)].file, FALSE) = {} THEN {}
    ELSE LET ds == fs[sorted(glob(log[Len(log)].file, FALSE))[1]].ds
         IN  IF ~ds.ok THEN {}
             ELSE {FieldNames[f] : f \in {g \in 1..5 : Lookup(ds.elems, FieldNames[g]) = <<>>}}

\* C10: when the representative file decodes and lacks one of the five tags,
\* the crawl fails with FieldNotFound and the error names the missing field.
C10_FieldNotFound ==
    (pc = "failed" /\ log # <<>> /\ log[Len(log)].valid /\ Lacking # {}) =>
        /\ error.type = "FieldNotFound"
        /\ error.mentions \cap Lacking # {}

====
